---- MODULE Spec2Model ----
(***************************************************************************)
(* A model of stratis-cli's logical actions (_actions/_logical.py) and     *)
(* shared utilities (_actions/_util.py): the verbs that resolve pool and   *)
(* filesystem names against one GetManagedObjects result and then issue    *)
(* one D-Bus call, the generic get_objects fetch, and the stratisd version *)
(* check with its decorator.                                               *)
(*                                                                         *)
(* Names (pool names, filesystem names) are numbered 1, 2, ... in the      *)
(* lexicographic order of the strings they stand for, so that < on the     *)
(* numbers is the order Python's sorted() uses on the strings.             *)
(* Strings that are parsed (the daemon's version) are sequences of         *)
(* one-character strings.                                                  *)
(***************************************************************************)
EXTENDS Integers, Sequences, FiniteSets, TLC

VARIABLES stratisd, namespace, invoked, arg, calls, raised, result

vars == <<stratisd, namespace, invoked, arg, calls, raised, result>>

(* ------------------------------ bounds -------------------------------- *)

MaxPools == 2
MaxFilesystems == 2
MaxFsNames == 2
MaxVersionLen == 5

Names == {1, 2}
VersionChars == {"0", "1", "2", "."}

(* --------------------------- Python values ---------------------------- *)

\* Python's None, as the default of getattr(namespace, key, None).
None == 0

\* The object path of the daemon's top-level object.
TOP_OBJECT == 0

NoException == [type |-> "", args |-> <<>>]

Exception(type, args) == [type |-> type, args |-> args]

\* getattr(namespace, key, None): the attribute, or None when it is absent.
getattr(ns, key) == IF key \in DOMAIN ns THEN ns[key] ELSE None

(* ------------------- the GetManagedObjects result ---------------------- *)

\* An entry of the result is an object path with its interface and that
\* interface's properties; the path of the i-th entry inserted is i. The
\* code only ever searches one interface at a time, so the order between a
\* pool's entry and a filesystem's entry is never observed: pools are put
\* first. A filesystem's Pool is the path of a pool of the same result.
PoolEntry(name) == [iface |-> "pool", props |-> [Name |-> name]]

FsEntry(name, pool, path) ==
    [iface |-> "filesystem",
     props |-> [Name |-> name, Pool |-> pool,
                Created |-> [minute |-> path, second |-> path],
                Devnode |-> path, Uuid |-> path]]

ManagedObjects ==
    UNION { { [i \in 1..(np + nf) |->
                  IF i <= np THEN PoolEntry(pn[i])
                  ELSE FsEntry(fn[i - np], fp[i - np], i)] :
              pn \in [1..np -> Names],
              fn \in [1..nf -> Names],
              fp \in [1..nf -> 1..np] } :
            np \in 0..MaxPools, nf \in 0..MaxFilesystems }

(* ------------------------- the object resolver ------------------------ *)

\* An entry matches when it has the interface and each property the
\* predicate names has the value the predicate requires.
Matches(entry, interface, props) ==
    /\ entry.iface = interface
    /\ \A k \in DOMAIN props : entry.props[k] = props[k]

RECURSIVE Filter(_, _, _, _)
Filter(mo, interface, props, i) ==
    IF i > Len(mo) THEN <<>>
    ELSE (IF Matches(mo[i], interface, props)
          THEN << <<i, mo[i].props>> >> ELSE <<>>)
         \o Filter(mo, interface, props, i + 1)

\* A search that takes the first of several matches for the unique one.
search_first_of_many(interface, props, unique, mo) ==
    LET found == Filter(mo, interface, props, 1) IN
    IF unique /\ Len(found) = 0
    THEN [raised |-> Exception("NoUniqueMatch", <<>>), items |-> <<>>]
    ELSE IF unique THEN [raised |-> NoException, items |-> <<found[1]>>]
    ELSE [raised |-> NoException, items |-> found]

\* query.require_unique_match(unique).search(managed_objects): the matching
\* (path, properties) pairs in the order of the result, or NoUniqueMatch
\* when a unique match is required and the count is not exactly one.
search(interface, props, unique, mo) ==
    LET found == Filter(mo, interface, props, 1) IN
    IF unique /\ Len(found) # 1
    THEN [raised |-> Exception("NoUniqueMatch", <<>>), items |-> <<>>]
    ELSE [raised |-> NoException, items |-> found]

pools(props, unique, mo) == search("pool", props, unique, mo)

filesystems(props, unique, mo) == search("filesystem", props, unique, mo)

(* ------------------------- the version check -------------------------- *)

\* The supported range, as the tuples _util.py imports from _data.
REQUIRED_STRATISD_VERSION == <<1, 0, 1>>
MAXIMUM_STRATISD_VERSION == <<2, 1, 0>>

DigitChars == <<"0", "1", "2", "3", "4", "5", "6", "7", "8", "9">>

IsDigit(c) == \E i \in 1..Len(DigitChars) : DigitChars[i] = c

DigitValue(c) == (CHOOSE i \in 1..Len(DigitChars) : DigitChars[i] = c) - 1

\* str.split(sep): the pieces between the separators; "" gives [""].
RECURSIVE SplitFrom(_, _, _)
SplitFrom(s, sep, piece) ==
    IF s = <<>> THEN <<piece>>
    ELSE IF Head(s) = sep THEN <<piece>> \o SplitFrom(Tail(s), sep, <<>>)
    ELSE SplitFrom(Tail(s), sep, Append(piece, Head(s)))

split(s, sep) == SplitFrom(s, sep, <<>>)

\* int(x) on a string of decimal digits; anything else is a ValueError.
IsInt(x) == x # <<>> /\ \A i \in 1..Len(x) : IsDigit(x[i])

RECURSIVE IntFrom(_, _)
IntFrom(x, acc) ==
    IF x = <<>> THEN acc ELSE IntFrom(Tail(x), 10 * acc + DigitValue(Head(x)))

int(x) == IntFrom(x, 0)

\* Python's < on tuples of integers: the first differing item decides, and
\* a proper prefix is less than the longer tuple.
RECURSIVE TupleLess(_, _)
TupleLess(a, b) ==
    IF a = <<>> THEN b # <<>>
    ELSE IF b = <<>> THEN FALSE
    ELSE IF Head(a) # Head(b) THEN Head(a) < Head(b)
    ELSE TupleLess(Tail(a), Tail(b))

VersionGet == [method |-> "Version.Get", object |-> TOP_OBJECT,
               args |-> <<>>, reply |-> <<>>]

\* A version check whose range leaves out its two ends.
verify_exclusive_range(daemon) ==
    LET pieces == split(daemon.Version, ".")
        version == [i \in 1..Len(pieces) |-> int(pieces[i])]
    IN  IF \E i \in 1..Len(pieces) : ~IsInt(pieces[i])
        THEN [raised |-> Exception("ValueError", <<>>), value |-> None,
              calls |-> <<VersionGet>>]
        ELSE IF \/ ~TupleLess(REQUIRED_STRATISD_VERSION, version)
                \/ ~TupleLess(version, MAXIMUM_STRATISD_VERSION)
        THEN [raised |-> Exception("StratisCliStratisdVersionError",
                                   <<version, REQUIRED_STRATISD_VERSION,
                                     MAXIMUM_STRATISD_VERSION>>),
              value |-> None, calls |-> <<VersionGet>>]
        ELSE [raised |-> NoException, value |-> TOP_OBJECT,
              calls |-> <<VersionGet>>]

\* _verify_stratisd_version(): what it raises, what it returns, and the
\* daemon calls it made.
_verify_stratisd_version(daemon) ==
    LET pieces == split(daemon.Version, ".")
        version == [i \in 1..Len(pieces) |-> int(pieces[i])]
    IN  IF \E i \in 1..Len(pieces) : ~IsInt(pieces[i])
        THEN [raised |-> Exception("ValueError", <<>>), value |-> None,
              calls |-> <<VersionGet>>]
        ELSE IF \/ TupleLess(version, REQUIRED_STRATISD_VERSION)
                \/ TupleLess(MAXIMUM_STRATISD_VERSION, version)
        THEN [raised |-> Exception("StratisCliStratisdVersionError",
                                   <<version, REQUIRED_STRATISD_VERSION,
                                     MAXIMUM_STRATISD_VERSION>>),
              value |-> None, calls |-> <<VersionGet>>]
        ELSE [raised |-> NoException, value |-> TOP_OBJECT,
              calls |-> <<VersionGet>>]

(* ------------------------- the daemon's replies ------------------------ *)

\* A mutating method replies (result, return code, message); the verbs read
\* the return code and the message. StratisdErrors.OK is "OK".
ReturnCodes == {"OK", "ERROR"}
Messages == {"", "failed"}
Replies == [rc : ReturnCodes, message : Messages]

GetManagedObjects == [method |-> "GetManagedObjects", object |-> TOP_OBJECT,
                      args |-> <<>>, reply |-> <<>>]

MethodCall(method, object, args, reply) ==
    [method |-> method, object |-> object, args |-> args, reply |-> reply]

Outcome(made, exception, value) ==
    [calls |-> made, raised |-> exception, result |-> value]

\* The object paths of a search result.
Paths(items) == [i \in 1..Len(items) |-> items[i][1]]

(* ------------------------------ the verbs ----------------------------- *)

\* create_volumes raising the engine error without the daemon's message.
create_volumes_drops_message(ns, reply) ==
    LET managed_objects == stratisd.objects
        pool == pools([Name |-> ns.pool_name], TRUE, managed_objects)
    IN  IF pool.raised.type # ""
        THEN Outcome(<<GetManagedObjects>>, pool.raised, None)
        ELSE
        LET pool_object_path == pool.items[1][1]
            call == MethodCall("CreateFilesystems", pool_object_path,
                               [specs |-> ns.fs_name], reply)
        IN  IF reply.rc # "OK"
            THEN Outcome(<<GetManagedObjects, call>>,
                         Exception("StratisCliEngineError",
                                   <<reply.rc, "">>), None)
            ELSE Outcome(<<GetManagedObjects, call>>, NoException, None)

\* LogicalActions.create_volumes(namespace)
create_volumes(ns, reply) ==
    LET managed_objects == stratisd.objects
        pool == pools([Name |-> ns.pool_name], TRUE, managed_objects)
    IN  IF pool.raised.type # ""
        THEN Outcome(<<GetManagedObjects>>, pool.raised, None)
        ELSE
        LET pool_object_path == pool.items[1][1]
            call == MethodCall("CreateFilesystems", pool_object_path,
                               [specs |-> ns.fs_name], reply)
        IN  IF reply.rc # "OK"
            THEN Outcome(<<GetManagedObjects, call>>,
                         Exception("StratisCliEngineError",
                                   <<reply.rc, reply.message>>), None)
            ELSE Outcome(<<GetManagedObjects, call>>, NoException, None)

\* The filesystems of the requested names, of whichever pool.
RECURSIVE FsObjectPathsOfAnyPool(_, _, _)
FsObjectPathsOfAnyPool(names, pool_object_path, managed_objects) ==
    IF names = <<>> THEN <<>>
    ELSE Paths(filesystems([Name |-> Head(names)],
                           FALSE, managed_objects).items)
         \o FsObjectPathsOfAnyPool(Tail(names), pool_object_path,
                                   managed_objects)

\* The list comprehension of destroy_volumes: for each requested name, in
\* order, the paths of the pool's filesystems of that name.
RECURSIVE FsObjectPaths(_, _, _)
FsObjectPaths(names, pool_object_path, managed_objects) ==
    IF names = <<>> THEN <<>>
    ELSE Paths(filesystems([Name |-> Head(names), Pool |-> pool_object_path],
                           FALSE, managed_objects).items)
         \o FsObjectPaths(Tail(names), pool_object_path, managed_objects)

\* LogicalActions.destroy_volumes(namespace)
destroy_volumes(ns, reply) ==
    LET managed_objects == stratisd.objects
        pool == pools([Name |-> ns.pool_name], TRUE, managed_objects)
    IN  IF pool.raised.type # ""
        THEN Outcome(<<GetManagedObjects>>, pool.raised, None)
        ELSE
        LET pool_object_path == pool.items[1][1]
            fs_object_paths ==
                FsObjectPaths(ns.fs_name, pool_object_path, managed_objects)
            call == MethodCall("DestroyFilesystems", pool_object_path,
                               [filesystems |-> fs_object_paths], reply)
        IN  IF reply.rc # "OK"
            THEN Outcome(<<GetManagedObjects, call>>,
                         Exception("StratisCliEngineError",
                                   <<reply.rc, reply.message>>), None)
            ELSE Outcome(<<GetManagedObjects, call>>, NoException, None)

\* snapshot_filesystem taking the first filesystem of the origin's name.
snapshot_filesystem_first_origin(ns, reply) ==
    LET managed_objects == stratisd.objects
        pool == pools([Name |-> ns.pool_name], TRUE, managed_objects)
    IN  IF pool.raised.type # ""
        THEN Outcome(<<GetManagedObjects>>, pool.raised, None)
        ELSE
        LET pool_object_path == pool.items[1][1]
            origin == filesystems([Name |-> ns.origin_name,
                                   Pool |-> pool_object_path],
                                  FALSE, managed_objects)
        IN  IF origin.items = <<>>
            THEN Outcome(<<GetManagedObjects>>,
                         Exception("NoUniqueMatch", <<>>), None)
            ELSE
            LET origin_fs_object_path == origin.items[1][1]
                call == MethodCall("SnapshotFilesystem", pool_object_path,
                                   [origin |-> origin_fs_object_path,
                                    snapshot_name |-> ns.snapshot_name],
                                   reply)
            IN  IF reply.rc # "OK"
                THEN Outcome(<<GetManagedObjects, call>>,
                             Exception("StratisCliEngineError",
                                       <<reply.rc, reply.message>>), None)
                ELSE Outcome(<<GetManagedObjects, call>>, NoException, None)

\* LogicalActions.snapshot_filesystem(namespace)
snapshot_filesystem(ns, reply) ==
    LET managed_objects == stratisd.objects
        pool == pools([Name |-> ns.pool_name], TRUE, managed_objects)
    IN  IF pool.raised.type # ""
        THEN Outcome(<<GetManagedObjects>>, pool.raised, None)
        ELSE
        LET pool_object_path == pool.items[1][1]
            origin == filesystems([Name |-> ns.origin_name,
                                   Pool |-> pool_object_path],
                                  TRUE, managed_objects)
        IN  IF origin.raised.type # ""
            THEN Outcome(<<GetManagedObjects>>, origin.raised, None)
            ELSE
            LET origin_fs_object_path == origin.items[1][1]
                call == MethodCall("SnapshotFilesystem", pool_object_path,
                                   [origin |-> origin_fs_object_path,
                                    snapshot_name |-> ns.snapshot_name],
                                   reply)
            IN  IF reply.rc # "OK"
                THEN Outcome(<<GetManagedObjects, call>>,
                             Exception("StratisCliEngineError",
                                       <<reply.rc, reply.message>>), None)
                ELSE Outcome(<<GetManagedObjects, call>>, NoException, None)

\* rename_fs looking the filesystem up by its name alone.
rename_fs_of_any_pool(ns, reply) ==
    LET managed_objects == stratisd.objects
        pool == pools([Name |-> ns.pool_name], TRUE, managed_objects)
    IN  IF pool.raised.type # ""
        THEN Outcome(<<GetManagedObjects>>, pool.raised, None)
        ELSE
        LET fs == filesystems([Name |-> ns.fs_name], TRUE, managed_objects)
        IN  IF fs.raised.type # ""
            THEN Outcome(<<GetManagedObjects>>, fs.raised, None)
            ELSE
            LET fs_object_path == fs.items[1][1]
                call == MethodCall("SetName", fs_object_path,
                                   [name |-> ns.new_name], reply)
            IN  IF reply.rc # "OK"
                THEN Outcome(<<GetManagedObjects, call>>,
                             Exception("StratisCliEngineError",
                                       <<reply.rc, reply.message>>), None)
                ELSE Outcome(<<GetManagedObjects, call>>, NoException, None)

\* LogicalActions.rename_fs(namespace)
rename_fs(ns, reply) ==
    LET managed_objects == stratisd.objects
        pool == pools([Name |-> ns.pool_name], TRUE, managed_objects)
    IN  IF pool.raised.type # ""
        THEN Outcome(<<GetManagedObjects>>, pool.raised, None)
        ELSE
        LET pool_object_path == pool.items[1][1]
            fs == filesystems([Name |-> ns.fs_name,
                               Pool |-> pool_object_path],
                              TRUE, managed_objects)
        IN  IF fs.raised.type # ""
            THEN Outcome(<<GetManagedObjects>>, fs.raised, None)
            ELSE
            LET fs_object_path == fs.items[1][1]
                call == MethodCall("SetName", fs_object_path,
                                   [name |-> ns.new_name], reply)
            IN  IF reply.rc # "OK"
                THEN Outcome(<<GetManagedObjects, call>>,
                             Exception("StratisCliEngineError",
                                       <<reply.rc, reply.message>>), None)
                ELSE Outcome(<<GetManagedObjects, call>>, NoException, None)

(* ------------------------------- listing ------------------------------ *)

\* date_parser.parse(created).astimezone().strftime("%b %d %Y %H:%M"): the
\* text names the minute and drops the seconds.
FormatCreated(created) == created.minute

\* One step of a stable sort: the row goes after every row whose key is
\* not greater than its own.
RECURSIVE Insert(_, _)
Insert(rows, row) ==
    IF rows = <<>> THEN <<row>>
    ELSE IF row[1] < Head(rows)[1] THEN <<row>> \o rows
    ELSE <<Head(rows)>> \o Insert(Tail(rows), row)

RECURSIVE SortInto(_, _)
SortInto(done, rows) ==
    IF rows = <<>> THEN done
    ELSE SortInto(Insert(done, Head(rows)), Tail(rows))

\* One step of a sort that puts a row before the rows of its own key.
RECURSIVE InsertBeforeEqual(_, _)
InsertBeforeEqual(rows, row) ==
    IF rows = <<>> THEN <<row>>
    ELSE IF row[1] <= Head(rows)[1] THEN <<row>> \o rows
    ELSE <<Head(rows)>> \o InsertBeforeEqual(Tail(rows), row)

RECURSIVE SortIntoUnstable(_, _)
SortIntoUnstable(done, rows) ==
    IF rows = <<>> THEN done
    ELSE SortIntoUnstable(InsertBeforeEqual(done, Head(rows)), Tail(rows))

\* A sort by pool name that does not keep the order of equal keys.
sorted_unstable(tables) == SortIntoUnstable(<<>>, tables)

\* sorted(tables, key=lambda entry: entry[0]); Python's sort is stable.
sorted(tables) == SortInto(<<>>, tables)

\* dict((path, MOPool(info).Name()) for path, info in items)
PathToName(items) ==
    [path \in {items[i][1] : i \in 1..Len(items)} |->
        items[CHOOSE i \in 1..Len(items) :
                  /\ items[i][1] = path
                  /\ \A j \in (i + 1)..Len(items) : items[j][1] # path][2]
        .Name]

Header == <<"Pool Name", "Name", "Created", "Device", "UUID">>
Alignments == <<"<", "<", "<", "<", "<">>

\* list_volumes searching the filesystems of every pool under a filter too.
list_volumes_unscoped(ns) ==
    LET pool_name == getattr(ns, "pool_name")
        managed_objects == stratisd.objects
        mofilesystems == filesystems(<<>>, FALSE, managed_objects).items
        path_to_name ==
            PathToName(pools(<<>>, FALSE, managed_objects).items)
        tables ==
            [i \in 1..Len(mofilesystems) |->
                LET mofilesystem == mofilesystems[i][2] IN
                <<path_to_name[mofilesystem.Pool],
                  mofilesystem.Name,
                  FormatCreated(mofilesystem.Created),
                  mofilesystem.Devnode,
                  mofilesystem.Uuid>>]
    IN  Outcome(<<GetManagedObjects>>, NoException,
                [headers |-> Header, rows |-> sorted(tables),
                 alignments |-> Alignments])

\* LogicalActions.list_volumes(namespace)
list_volumes(ns) ==
    LET pool_name == getattr(ns, "pool_name")
        managed_objects == stratisd.objects
        pool == IF pool_name = None
                THEN [raised |-> NoException, items |-> <<>>]
                ELSE pools([Name |-> pool_name], TRUE, managed_objects)
    IN  IF pool.raised.type # ""
        THEN Outcome(<<GetManagedObjects>>, pool.raised, None)
        ELSE
        LET mofilesystems ==
                filesystems(IF pool_name = None THEN <<>>
                            ELSE [Pool |-> pool.items[1][1]],
                            FALSE, managed_objects).items
            path_to_name ==
                PathToName(pools(IF pool_name = None THEN <<>>
                                 ELSE [Name |-> pool_name],
                                 FALSE, managed_objects).items)
            tables ==
                [i \in 1..Len(mofilesystems) |->
                    LET mofilesystem == mofilesystems[i][2] IN
                    <<path_to_name[mofilesystem.Pool],
                      mofilesystem.Name,
                      FormatCreated(mofilesystem.Created),
                      mofilesystem.Devnode,
                      mofilesystem.Uuid>>]
        IN  IF \E i \in 1..Len(mofilesystems) :
                   mofilesystems[i][2].Pool \notin DOMAIN path_to_name
            THEN Outcome(<<GetManagedObjects>>,
                         Exception("KeyError", <<>>), None)
            ELSE Outcome(<<GetManagedObjects>>, NoException,
                         [headers |-> Header, rows |-> sorted(tables),
                          alignments |-> Alignments])

(* ---------------------- generic multi-pool fetch ---------------------- *)

\* get_objects(namespace, pool_name_key, managed_objects, search_function,
\* constructor), with filesystems as the search function and MOFilesystem,
\* a view of the properties, as the constructor.
get_objects(ns, pool_name_key, managed_objects) ==
    LET pool_name == getattr(ns, pool_name_key) IN
    IF pool_name # None
    THEN
        LET pool == pools([Name |-> pool_name], TRUE, managed_objects) IN
        IF pool.raised.type # ""
        THEN Outcome(<<>>, pool.raised, None)
        ELSE IF "pool_name" \notin DOMAIN ns
        THEN Outcome(<<>>, Exception("AttributeError", <<>>), None)
        ELSE
        LET parent_pool_object_path == pool.items[1][1]
            properties == [Pool |-> parent_pool_object_path]
            path_to_name == [p \in {parent_pool_object_path} |-> ns.pool_name]
            found == filesystems(properties, FALSE, managed_objects).items
        IN  Outcome(<<>>, NoException,
                    [objects |-> [i \in 1..Len(found) |-> found[i][2]],
                     path_to_name |-> path_to_name])
    ELSE
        LET properties == <<>>
            path_to_name ==
                PathToName(pools(<<>>, FALSE, managed_objects).items)
            found == filesystems(properties, FALSE, managed_objects).items
        IN  Outcome(<<>>, NoException,
                    [objects |-> [i \in 1..Len(found) |-> found[i][2]],
                     path_to_name |-> path_to_name])

(* ---------------------------- the decorator --------------------------- *)

\* The verbs of LogicalActions, each a function of the namespace alone.
Verbs == {"create_volumes", "destroy_volumes", "snapshot_filesystem",
          "rename_fs", "list_volumes"}

\* What verify_stratisd_version_decorator may be given: a verb above, or a
\* function of the documented type (Namespace * object path) -> None.
OrigFuncs == Verbs \cup {"conforming"}

\* verify_stratisd_version_decorator(orig_func)(namespace): the argument
\* _verify_stratisd_version() is evaluated first; then orig_func is called
\* with two arguments, which a function of one parameter rejects.
the_func(orig_func, ns) ==
    LET checked == _verify_stratisd_version(stratisd) IN
    IF checked.raised.type # ""
    THEN Outcome(checked.calls, checked.raised, None)
    ELSE IF orig_func \in Verbs
    THEN Outcome(checked.calls, Exception("TypeError", <<>>), None)
    ELSE Outcome(checked.calls, NoException,
                 [called_with |-> <<ns, checked.value>>])

(* --------------------------- the invocations -------------------------- *)

\* The lists of names a namespace may carry (nargs="+": at least one).
NameLists == UNION {[1..n -> Names] : n \in 1..MaxFsNames}

CreateNamespaces == [pool_name : Names, fs_name : NameLists]
DestroyNamespaces == [pool_name : Names, fs_name : NameLists]
SnapshotNamespaces ==
    [pool_name : Names, origin_name : Names, snapshot_name : Names]
RenameNamespaces == [pool_name : Names, fs_name : Names, new_name : Names]

\* "stratis filesystem" alone lists with a namespace that has no pool_name.
ListNamespaces == {<<>>} \cup [pool_name : Names \cup {None}]

\* The keys get_objects may be told to read the pool name from.
PoolNameKeys == {"pool_name", "parent_pool_name"}
GetObjectsNamespaces ==
    UNION {[keys -> Names \cup {None}] : keys \in SUBSET PoolNameKeys}

\* The predicates of a search, by interface.
Predicates(interface) ==
    IF interface = "pool"
    THEN {<<>>} \cup [Name : Names]
    ELSE {<<>>} \cup [Name : Names] \cup [Pool : 1..MaxPools]
         \cup [Name : Names, Pool : 1..MaxPools]

VersionStrings == UNION {[1..n -> VersionChars] : n \in 0..MaxVersionLen}

\* Daemon versions at and just outside the ends of the supported range.
DaemonVersions ==
    {<<"1", ".", "0", ".", "0">>, <<"1", ".", "0", ".", "1">>,
     <<"2", ".", "1", ".", "0">>, <<"2", ".", "1", ".", "1">>}

InitWith(versions, objects) ==
    /\ stratisd \in [Version : versions, objects : objects]
    /\ namespace = <<>>
    /\ invoked = ""
    /\ arg = ""
    /\ calls = <<>>
    /\ raised = NoException
    /\ result = None

\* One invocation: the function runs to its end, leaving the calls it made
\* on the daemon, the exception it raised and what it returned or printed.
Run(name, input, ns, outcome) ==
    /\ invoked = ""
    /\ invoked' = name
    /\ arg' = input
    /\ namespace' = ns
    /\ calls' = outcome.calls
    /\ raised' = outcome.raised
    /\ result' = outcome.result
    /\ UNCHANGED stratisd

CreateVolumes ==
    \E ns \in CreateNamespaces, reply \in Replies :
        Run("create_volumes", "", ns, create_volumes(ns, reply))

DestroyVolumes ==
    \E ns \in DestroyNamespaces, reply \in Replies :
        Run("destroy_volumes", "", ns, destroy_volumes(ns, reply))

SnapshotFilesystem ==
    \E ns \in SnapshotNamespaces, reply \in Replies :
        Run("snapshot_filesystem", "", ns, snapshot_filesystem(ns, reply))

RenameFs ==
    \E ns \in RenameNamespaces, reply \in Replies :
        Run("rename_fs", "", ns, rename_fs(ns, reply))

ListVolumes ==
    \E ns \in ListNamespaces :
        Run("list_volumes", "", ns, list_volumes(ns))

GetObjects ==
    \E ns \in GetObjectsNamespaces, pool_name_key \in PoolNameKeys :
        Run("get_objects", pool_name_key, ns,
            get_objects(ns, pool_name_key, stratisd.objects))

VerifyStratisdVersion ==
    LET checked == _verify_stratisd_version(stratisd) IN
    Run("_verify_stratisd_version", "", <<>>,
        Outcome(checked.calls, checked.raised, checked.value))

TheFunc ==
    \E orig_func \in OrigFuncs, ns \in [pool_name : Names] :
        Run("the_func", orig_func, ns, the_func(orig_func, ns))

Search ==
    \E interface \in {"pool", "filesystem"}, unique \in BOOLEAN :
        \E props \in Predicates(interface) :
            LET found == search(interface, props, unique, stratisd.objects)
            IN  Run("search",
                    [interface |-> interface, props |-> props,
                     unique |-> unique],
                    <<>>, Outcome(<<>>, found.raised, found.items))

(* -------------------------- the specifications ------------------------ *)

\* The verbs never read the daemon's version: one supported and one
\* unsupported version stand for all.
Init == InitWith({<<"1", ".", "0", ".", "1">>, <<"1", ".", "0", ".", "0">>},
                 ManagedObjects)

\* The mutating verbs, against any daemon state.
Next == CreateVolumes \/ DestroyVolumes \/ SnapshotFilesystem \/ RenameFs

Spec == Init /\ [][Next]_vars

\* The mutating verbs, called directly or through the decorator, against
\* daemons at and around the ends of the supported range.
InitGuard == InitWith(DaemonVersions, ManagedObjects)

NextGuard ==
    \/ CreateVolumes
    \/ DestroyVolumes
    \/ SnapshotFilesystem
    \/ RenameFs
    \/ TheFunc

SpecGuard == InitGuard /\ [][NextGuard]_vars

\* Listing and the generic fetch.
NextList == ListVolumes \/ GetObjects

SpecList == Init /\ [][NextList]_vars

\* The object resolver on its own.
NextSearch == Search

SpecSearch == Init /\ [][NextSearch]_vars

\* The version check, on every version string of the alphabet.
InitVersion == InitWith(VersionStrings, {<<>>})

NextVersion == VerifyStratisdVersion \/ TheFunc

SpecVersion == InitVersion /\ [][NextVersion]_vars

(* ------------------------------ the claims ---------------------------- *)

MutatingVerbs == {"create_volumes", "destroy_volumes", "snapshot_filesystem",
                  "rename_fs"}

MutatingMethods == {"CreateFilesystems", "DestroyFilesystems",
                    "SnapshotFilesystem", "SetName"}

MutatingCalls == {i \in 1..Len(calls) : calls[i].method \in MutatingMethods}

FetchCalls == {i \in 1..Len(calls) : calls[i].method = "GetManagedObjects"}

\* The pools of the daemon's objects that have the name.
PoolsNamed(name) ==
    {p \in 1..Len(stratisd.objects) :
        /\ stratisd.objects[p].iface = "pool"
        /\ stratisd.objects[p].props.Name = name}

\* The filesystems of the pool that have the name.
FsNamedIn(name, pool) ==
    {f \in 1..Len(stratisd.objects) :
        /\ stratisd.objects[f].iface = "filesystem"
        /\ stratisd.objects[f].props.Name = name
        /\ stratisd.objects[f].props.Pool = pool}

FsIn(pool) ==
    {f \in 1..Len(stratisd.objects) :
        /\ stratisd.objects[f].iface = "filesystem"
        /\ stratisd.objects[f].props.Pool = pool}

AllFs ==
    {f \in 1..Len(stratisd.objects) :
        stratisd.objects[f].iface = "filesystem"}

AllPools ==
    {p \in 1..Len(stratisd.objects) : stratisd.objects[p].iface = "pool"}

The(set) == CHOOSE x \in set : TRUE

\* The members of a set of paths, ascending.
RECURSIVE Ascending(_)
Ascending(set) ==
    IF set = {} THEN <<>>
    ELSE LET least == CHOOSE x \in set : \A y \in set : x <= y
         IN  <<least>> \o Ascending(set \ {least})

UnsupportedVersions ==
    {<<"1", ".", "0", ".", "0">>, <<"2", ".", "1", ".", "1">>}

\* The names of the invocation resolve: one pool has the pool name and, for
\* snapshot and rename, one of its filesystems has the filesystem name.
NamesResolve(verb) ==
    /\ Cardinality(PoolsNamed(namespace.pool_name)) = 1
    /\ verb = "snapshot_filesystem" =>
          Cardinality(FsNamedIn(namespace.origin_name,
                                The(PoolsNamed(namespace.pool_name)))) = 1
    /\ verb = "rename_fs" =>
          Cardinality(FsNamedIn(namespace.fs_name,
                                The(PoolsNamed(namespace.pool_name)))) = 1

\* C1: whenever the daemon's version is outside the supported range, an
\* invocation of a mutating verb (here one whose names resolve, so that
\* nothing else stops it) raises the version error before any mutating
\* call: no CreateFilesystems, DestroyFilesystems, SnapshotFilesystem or
\* SetName is issued.
C1_VersionErrorBeforeAnyMutation ==
    (/\ stratisd.Version \in UnsupportedVersions
     /\ \/ invoked \in MutatingVerbs /\ NamesResolve(invoked)
        \/ invoked = "the_func" /\ arg \in MutatingVerbs)
    => /\ raised.type = "StratisCliStratisdVersionError"
       /\ MutatingCalls = {}

\* C2: a verb whose daemon call replies a return code other than OK raises
\* StratisCliEngineError with exactly that code and message, and that call
\* is its last; a reply of OK raises no StratisCliEngineError.
C2_EngineErrorIffNotOK ==
    invoked \in MutatingVerbs =>
        /\ \A i \in MutatingCalls :
              IF calls[i].reply.rc # "OK"
              THEN /\ raised.type = "StratisCliEngineError"
                   /\ raised.args = <<calls[i].reply.rc,
                                      calls[i].reply.message>>
                   /\ i = Len(calls)
              ELSE raised.type = ""
        /\ raised.type = "StratisCliEngineError" => MutatingCalls # {}

C2_Witness ==
    /\ invoked \in MutatingVerbs
    /\ \E i \in MutatingCalls :
          calls[i].reply = [rc |-> "ERROR", message |-> "failed"]
    /\ raised = Exception("StratisCliEngineError", <<"ERROR", "failed">>)

\* The paths of the entries a search's predicate selects.
Selected ==
    {i \in 1..Len(stratisd.objects) :
        /\ stratisd.objects[i].iface = arg.interface
        /\ \A k \in DOMAIN arg.props :
              stratisd.objects[i].props[k] = arg.props[k]}

\* C3: a search that requires a unique match returns the one (path,
\* properties) entry that satisfies the predicate when exactly one does,
\* and raises NoUniqueMatch when none or more than one does.
C3_UniqueMatch ==
    (invoked = "search" /\ arg.unique) =>
        IF Cardinality(Selected) = 1
        THEN /\ raised.type = ""
             /\ result = << <<The(Selected),
                              stratisd.objects[The(Selected)].props>> >>
        ELSE raised.type = "NoUniqueMatch"

\* Name=1 over a pool named 1 and a pool named 2 gives the first's path.
C3_Witness ==
    /\ invoked = "search" /\ arg.unique
    /\ arg.interface = "pool" /\ arg.props = [Name |-> 1]
    /\ Len(stratisd.objects) = 2
    /\ stratisd.objects[1] = PoolEntry(1)
    /\ stratisd.objects[2] = PoolEntry(2)
    /\ raised.type = ""
    /\ result = << <<1, [Name |-> 1]>> >>

\* Less-than on tuples of integers, by the first position that differs.
LexLess(a, b) ==
    \E k \in 1..(Len(a) + 1) :
        /\ k <= Len(b)
        /\ \A j \in 1..(k - 1) : a[j] = b[j]
        /\ k <= Len(a) => a[k] < b[k]

\* The daemon's version string as a tuple, when each piece is an integer.
WellFormedVersion ==
    \A i \in 1..Len(split(stratisd.Version, ".")) :
        IsInt(split(stratisd.Version, ".")[i])

ParsedVersion ==
    [i \in 1..Len(split(stratisd.Version, ".")) |->
        int(split(stratisd.Version, ".")[i])]

\* C4: the version check returns the proxy and raises nothing for every
\* version v with minimum <= v <= maximum as integer tuples, the two ends
\* included, and raises the version error carrying (v, minimum, maximum)
\* for every other version, one patch below the minimum and one patch
\* above the maximum among them.
C4_InclusiveRange ==
    (invoked = "_verify_stratisd_version" /\ WellFormedVersion) =>
        /\ IF /\ ~LexLess(ParsedVersion, REQUIRED_STRATISD_VERSION)
               /\ ~LexLess(MAXIMUM_STRATISD_VERSION, ParsedVersion)
           THEN raised.type = "" /\ result = TOP_OBJECT
           ELSE raised = Exception("StratisCliStratisdVersionError",
                                   <<ParsedVersion, REQUIRED_STRATISD_VERSION,
                                     MAXIMUM_STRATISD_VERSION>>)
        /\ stratisd.Version \in {<<"1", ".", "0", ".", "1">>,
                                 <<"2", ".", "1", ".", "0">>}
             => raised.type = ""
        /\ stratisd.Version \in UnsupportedVersions
             => raised.type = "StratisCliStratisdVersionError"

\* The version exactly at the maximum is accepted.
C4_Witness ==
    /\ invoked = "_verify_stratisd_version"
    /\ stratisd.Version = <<"2", ".", "1", ".", "0">>
    /\ raised.type = ""
    /\ result = TOP_OBJECT

\* The filesystems list_volumes is to show: all of them without a pool
\* filter, those of the one pool the filter names with one.
Listed ==
    IF getattr(namespace, "pool_name") = None THEN AllFs
    ELSE FsIn(The(PoolsNamed(namespace.pool_name)))

RowsOf(f) == {i \in 1..Len(result.rows) : result.rows[i][5] = f}

\* C5: list_volumes without a pool filter, or with a filter that names
\* exactly one pool, prints exactly one row for each filesystem to show and
\* no other row; the row carries the name of the filesystem's pool and the
\* filesystem's name.
C5_RowsCoverFilesystems ==
    (/\ invoked = "list_volumes"
     /\ \/ getattr(namespace, "pool_name") = None
        \/ Cardinality(PoolsNamed(namespace.pool_name)) = 1)
    => /\ raised.type = ""
       /\ Len(result.rows) = Cardinality(Listed)
       /\ \A f \in Listed :
             /\ Cardinality(RowsOf(f)) = 1
             /\ \A i \in RowsOf(f) :
                   /\ result.rows[i][1] =
                        stratisd.objects[stratisd.objects[f].props.Pool]
                            .props.Name
                   /\ result.rows[i][2] = stratisd.objects[f].props.Name

\* A filter on one of two pools, each with a filesystem, shows one row.
C5_Witness ==
    /\ invoked = "list_volumes"
    /\ getattr(namespace, "pool_name") # None
    /\ Cardinality(PoolsNamed(namespace.pool_name)) = 1
    /\ \E f \in AllFs : f \notin Listed
    /\ raised.type = ""
    /\ Len(result.rows) = 1

\* C6: the printed rows ascend by pool name, and rows of equal pool name
\* keep the order their filesystems have in the daemon's objects.
C6_SortedStable ==
    (invoked = "list_volumes" /\ raised.type = "") =>
        /\ \A i, j \in 1..Len(result.rows) :
              i < j =>
                /\ result.rows[i][1] <= result.rows[j][1]
                /\ result.rows[i][1] = result.rows[j][1]
                     => result.rows[i][5] < result.rows[j][5]
        /\ {result.rows[i][5] : i \in 1..Len(result.rows)} = Listed

\* Two rows printed in the reverse of the order of their filesystems.
C6_Witness ==
    /\ invoked = "list_volumes" /\ raised.type = ""
    /\ Len(result.rows) = 2
    /\ result.rows[1][1] < result.rows[2][1]
    /\ result.rows[1][5] > result.rows[2][5]

\* The paths destroy_volumes is to pass: per requested name, in order, the
\* pool's filesystems of that name.
RECURSIVE Requested(_, _)
Requested(names, pool) ==
    IF names = <<>> THEN <<>>
    ELSE Ascending(FsNamedIn(Head(names), pool))
         \o Requested(Tail(names), pool)

\* C7: destroy_volumes, once the pool resolves uniquely, issues exactly one
\* DestroyFilesystems call, on that pool, with the paths of the pool's
\* filesystems of each requested name in the order requested; a name that
\* matches nothing adds nothing and raises nothing.
C7_DestroyCallsOnce ==
    (/\ invoked = "destroy_volumes"
     /\ Cardinality(PoolsNamed(namespace.pool_name)) = 1)
    => /\ Cardinality(MutatingCalls) = 1
       /\ \A i \in MutatingCalls :
             /\ calls[i].method = "DestroyFilesystems"
             /\ calls[i].object = The(PoolsNamed(namespace.pool_name))
             /\ calls[i].args.filesystems =
                  Requested(namespace.fs_name,
                            The(PoolsNamed(namespace.pool_name)))
             /\ calls[i].reply.rc = "OK" => raised.type = ""
       /\ raised.type \in {"", "StratisCliEngineError"}

\* No requested name resolves, and the call is made with an empty list.
C7_Witness ==
    /\ invoked = "destroy_volumes"
    /\ Cardinality(PoolsNamed(namespace.pool_name)) = 1
    /\ AllFs # {}
    /\ \E i \in MutatingCalls :
          /\ calls[i].args.filesystems = <<>>
          /\ calls[i].reply.rc = "OK"
    /\ raised.type = ""

\* The properties of the filesystems of a set, in the order of their paths.
InfoOf(set) ==
    [i \in 1..Cardinality(set) |-> stratisd.objects[Ascending(set)[i]].props]

\* C8: get_objects, for any pool_name_key: with a pool name under that key
\* that one pool has, it returns the objects of that pool and the map of
\* that pool's path to the name given under the key; with no pool name
\* under the key, the objects of all pools and every pool's path and name.
C8_PathToNameFromKey ==
    invoked = "get_objects" =>
        IF getattr(namespace, arg) # None
        THEN Cardinality(PoolsNamed(getattr(namespace, arg))) = 1 =>
               /\ raised.type = ""
               /\ result.objects =
                    InfoOf(FsIn(The(PoolsNamed(getattr(namespace, arg)))))
               /\ result.path_to_name =
                    [p \in PoolsNamed(getattr(namespace, arg)) |->
                        getattr(namespace, arg)]
        ELSE /\ raised.type = ""
             /\ result.objects = InfoOf(AllFs)
             /\ result.path_to_name =
                  [p \in AllPools |-> stratisd.objects[p].props.Name]

\* C9: a mutating verb makes one GetManagedObjects call, first, and at
\* most one mutating call, last; when a unique lookup (the pool, and for
\* snapshot and rename the filesystem) matches none or several, it raises
\* NoUniqueMatch and makes no mutating call.
C9_FetchLookupsThenOneCall ==
    invoked \in MutatingVerbs =>
        /\ Cardinality(FetchCalls) = 1
        /\ calls[1].method = "GetManagedObjects"
        /\ Cardinality(MutatingCalls) <= 1
        /\ \A i \in MutatingCalls : i = 2 /\ Len(calls) = 2
        /\ ~NamesResolve(invoked) =>
              /\ raised.type = "NoUniqueMatch"
              /\ MutatingCalls = {}

\* The pool resolves, two of its filesystems share the name: no SetName.
C9_Witness ==
    /\ invoked = "rename_fs"
    /\ Cardinality(PoolsNamed(namespace.pool_name)) = 1
    /\ Cardinality(FsNamedIn(namespace.fs_name,
                             The(PoolsNamed(namespace.pool_name)))) = 2
    /\ raised.type = "NoUniqueMatch"
    /\ calls = <<GetManagedObjects>>

IsFsOf(path, name, pools_) ==
    /\ path \in AllFs
    /\ stratisd.objects[path].props.Name = name
    /\ stratisd.objects[path].props.Pool \in pools_

\* C10: the filesystems that destroy_volumes, snapshot_filesystem and
\* rename_fs pass to or address with their mutating call belong to the pool
\* resolved from the pool name; DestroyFilesystems and SnapshotFilesystem
\* go to that pool's object, SetName to the filesystem's.
C10_OnlyTheResolvedPool ==
    \A i \in MutatingCalls :
        /\ invoked = "destroy_volumes" =>
              /\ calls[i].method = "DestroyFilesystems"
              /\ calls[i].object \in PoolsNamed(namespace.pool_name)
              /\ \A k \in 1..Len(calls[i].args.filesystems) :
                    \E n \in 1..Len(namespace.fs_name) :
                        IsFsOf(calls[i].args.filesystems[k],
                               namespace.fs_name[n], {calls[i].object})
        /\ invoked = "snapshot_filesystem" =>
              /\ calls[i].method = "SnapshotFilesystem"
              /\ calls[i].object \in PoolsNamed(namespace.pool_name)
              /\ IsFsOf(calls[i].args.origin, namespace.origin_name,
                        {calls[i].object})
        /\ invoked = "rename_fs" =>
              /\ calls[i].method = "SetName"
              /\ IsFsOf(calls[i].object, namespace.fs_name,
                        PoolsNamed(namespace.pool_name))

\* A filesystem is renamed while another pool has one of the same name.
C10_Witness ==
    /\ invoked = "rename_fs"
    /\ \E i \in MutatingCalls :
          \E f \in AllFs :
              /\ f # calls[i].object
              /\ stratisd.objects[f].props.Name = namespace.fs_name
              /\ stratisd.objects[f].props.Pool
                   # stratisd.objects[calls[i].object].props.Pool

====
